---- MODULE Spec2Model ----
(***************************************************************************)
(* Loan-waybill conversion workflow of nbs_customization                   *)
(* (public/js/nbs_theme.js): the "Check Pending Loan Waybills" button of a *)
(* Sales Order, the loan selection dialog, the loan detail dialog, the     *)
(* conversion dialog with its per-line quantity inputs, and the two remote *)
(* calls (get_pending_loan_waybills, create_delivery_note_from_loan).      *)
(***************************************************************************)
EXTENDS Integers, Sequences, FiniteSets, TLC

VARIABLES
    call,       \* the frappe.call in flight (freeze: true), or NoCall
    list,       \* the "Pending Loan Waybills" dialog
    detail,     \* the "Loan Waybill Details" dialog
    conv,       \* the "Convert Loan Waybill" dialog and its .convert-input values
    route,      \* the frappe.set_route calls made so far, in order
    notice,     \* the notification raised by the last handler that ran
    event,      \* the last event handled, with its input
    so,         \* frm.doc of the Sales Order form
    buttons,    \* the custom buttons the Sales Order form offers
    inflight,   \* the number of frappe.call requests of the workflow outstanding
    convs,      \* the number of conversion dialogs shown and not hidden
    script,     \* the form script a document form runs
    doc,        \* frm.doc of that document form
    df,         \* the properties of its items table
    reqs,       \* the requests of its handlers that are outstanding
    query,      \* the get_query function frm.set_query gave each link field
    page        \* the document nbs_theme.js runs in, and what the theme did to it

wf_vars == <<call, list, detail, conv, route, notice, event, so, buttons, inflight, convs>>
form_vars == <<script, doc, df, reqs, query>>
vars == <<call, list, detail, conv, route, notice, event, so, buttons, inflight, convs,
          script, doc, df, reqs, query, page>>

\* ---------------------------------------------------------------- bounds
MaxQty == 2     \* largest max_convertible_qty the server sends
NegMax == 1     \* the clamp alone is also exercised with max down to -NegMax

\* ---------------------------------------------------------------- values
\* The value of an <input type="number">: a number, or "" (empty, or text
\* the browser does not accept as a number).
Num(n) == [kind |-> "num", n |-> n]
Blank == [kind |-> "blank", n |-> 0]
RawValues == {Num(n) : n \in (0 - 1)..(MaxQty + 1)} \cup {Blank}

\* parseFloat: NaN for "", the number otherwise.
parseFloat(v) == IF v.kind = "num" THEN [nan |-> FALSE, n |-> v.n]
                 ELSE [nan |-> TRUE, n |-> 0]

\* `x || 0` on a parseFloat result: NaN and 0 are falsy.
OrZero(p) == IF p.nan \/ p.n = 0 THEN 0 ELSE p.n

\* `it.max_convertible_qty || 0` rendered into the max attribute.
max_attr(it) == Num(IF it.max_convertible_qty = 0 THEN 0 ELSE it.max_convertible_qty)

\* ---------------------------------------------------------------- server data
LoanLine(w, i, m) ==
    [item_code |-> <<"ITEM", w, i>>, batch_no |-> <<"BATCH", w, i>>,
     serial_no |-> <<"SERIAL", w, i>>, warehouse |-> <<"WH", i>>,
     expiry_date |-> <<"EXP", w, i>>, stock_entry_detail |-> <<"SED", w, i>>,
     max_convertible_qty |-> m]

Loan1(Q) == {[loan_waybill |-> "LW-1", items |-> <<LoanLine(1, 1, a), LoanLine(1, 2, b)>>] :
                a \in Q, b \in Q}
Loan2(Q) == {[loan_waybill |-> "LW-2", items |-> <<LoanLine(2, 1, a)>>] : a \in Q}
Loan3 == [loan_waybill |-> "LW-3", items |-> <<>>]     \* a loan waybill without items

\* r.message of get_pending_loan_waybills: nothing, an object without
\* loan_waybills, or an object with a list of zero, one or two loan waybills.
NoData == [null |-> TRUE, has_list |-> FALSE, loan_waybills |-> <<>>]
PendingData ==
    {NoData, [null |-> FALSE, has_list |-> FALSE, loan_waybills |-> <<>>]}
    \cup {[null |-> FALSE, has_list |-> TRUE, loan_waybills |-> l] :
            l \in {<<>>, <<Loan3>>} \cup {<<a>> : a \in Loan1(0..MaxQty)}
                  \cup {<<a, b>> : a \in Loan1(0..MaxQty), b \in Loan2(0..MaxQty)}}

\* r.message of create_delivery_note_from_loan: the new document's name, or nothing.
DocIds == {"DN-1", "DN-2"}
CreateData == {[null |-> TRUE, name |-> ""]} \cup {[null |-> FALSE, name |-> d] : d \in DocIds}

\* ---------------------------------------------------------------- state
NoCall == [kind |-> "none"]
NoNotice == [kind |-> "none", text |-> "", indicator |-> ""]
NoLoan == [loan_waybill |-> "", items |-> <<>>]

ClosedList == [open |-> FALSE, loan_waybills |-> <<>>, checked |-> 0]
ClosedDetail == [open |-> FALSE, loan |-> NoLoan]
ClosedConv == [open |-> FALSE, loan |-> NoLoan, vals |-> <<>>]

\* frm.doc of a Sales Order, as far as the refresh handler reads it.
SalesOrders ==
    [docstatus : {0, 1, 2}, customer : {"", "CUST-1"}, per_delivered : {99, 100},
     custom_customer_delivery_note : {"", "CDN-1"}, custom_promissory_note : {"", "PN-1"}]
NewSalesOrder ==
    [docstatus |-> 0, customer |-> "", per_delivered |-> 99,
     custom_customer_delivery_note |-> "", custom_promissory_note |-> ""]

\* frm.doc of a new Loan Waybill, Customer Delivery Note or Promissory Note,
\* as far as the form scripts read or write it.
BlankDoc ==
    [sales_order |-> "", customer |-> "", customer_address |-> "",
     shipping_address_name |-> "", received_by |-> "", address_display |-> "",
     shipping_address |-> "", items |-> <<>>, date |-> "", is_new |-> TRUE]
Unlocked == [cannot_add_rows |-> FALSE, cannot_delete_rows |-> FALSE]

\* A get_query function: the query it names and the customer it filters by,
\* which is Live when the function reads frm.doc.customer at each call.
Live == "frm.doc.customer"
NoQuery == [kind |-> "none", customer |-> ""]
NoQueries == [customer_address |-> NoQuery, shipping_address_name |-> NoQuery,
              received_by |-> NoQuery]

\* ---------------------------------------------------------------- theme manager
\* The document before nbs_theme.js has run.
NewPage ==
    [readyState |-> "loading",  \* document.readyState
     dispatched |-> FALSE,      \* DOMContentLoaded has been dispatched
     ran |-> FALSE,             \* nbs_theme.js has been evaluated
     listeners |-> 0,           \* DOMContentLoaded listeners of nbs_theme.js
     instances |-> 0,           \* NBSTheme objects constructed
     styles |-> 0,              \* style[data-nbs-theme] elements in document.head
     observers |-> 0,           \* MutationObservers observing document.body
     tables |-> 0,              \* tables added to the body by other scripts
     row_listeners |-> 0,       \* mouseenter/mouseleave pairs on their rows
     updates |-> 0]             \* updateTheme calls

\* addGlobalStyles: one more style element, whatever is there already.
addGlobalStyles(pg) == [pg EXCEPT !.styles = @ + 1]

\* setupEventListeners: a new MutationObserver on document.body.
setupEventListeners(pg) == [pg EXCEPT !.observers = @ + 1]

\* new NBSTheme(): the constructor calls init, that is applyTheme,
\* setupFullWidthLayout, setupTableStyling, setupButtonStyling (one
\* addGlobalStyles each) and setupEventListeners.
NBSTheme(pg) ==
    LET layout == addGlobalStyles(pg)
        tables == addGlobalStyles(layout)
        btns == addGlobalStyles(tables)
    IN  [setupEventListeners(btns) EXCEPT !.instances = @ + 1]

\* The listeners of DOMContentLoaded run one after the other.
RECURSIVE run_listeners(_, _)
run_listeners(pg, n) == IF n = 0 THEN pg ELSE run_listeners(NBSTheme(pg), n - 1)

\* The page the workflow and the forms run in: the script was evaluated
\* after the document had loaded.
LoadedPage ==
    [NBSTheme([NewPage EXCEPT !.readyState = "complete", !.dispatched = TRUE])
        EXCEPT !.ran = TRUE, !.listeners = 1]

\* No document form is open beside the Sales Order.
NoForm ==
    /\ script = "none"
    /\ doc = BlankDoc
    /\ df = Unlocked
    /\ reqs = {}
    /\ query = NoQueries
    /\ page = LoadedPage

Init ==
    /\ call = NoCall
    /\ list = ClosedList
    /\ detail = ClosedDetail
    /\ conv = ClosedConv
    /\ route = <<>>
    /\ notice = NoNotice
    /\ event = [type |-> "init"]
    /\ so = NewSalesOrder
    /\ buttons = {}
    /\ inflight = 0
    /\ convs = 0
    /\ NoForm

\* Variant without `freeze: true`: the page is never frozen.
Frozen_never == FALSE

\* freeze: true keeps the page frozen while a call is in flight.
Frozen == call.kind # "none"

\* The user can reach the form's buttons only when no modal dialog covers it
\* and the Sales Order form is still the current route.
FormActive ==
    /\ ~Frozen /\ ~list.open /\ ~detail.open /\ ~conv.open /\ route = <<>>
    /\ "Check Pending Loan Waybills" \in buttons
\* The topmost open dialog takes the input.
ListActive == ~Frozen /\ list.open /\ ~detail.open
DetailActive == ~Frozen /\ detail.open
ConvActive == ~Frozen /\ conv.open

\* ---------------------------------------------------------------- helpers
\* dialog.hide(): every show_* and open_* function builds a new
\* frappe.ui.Dialog, so a hidden dialog is never shown again and its content
\* (rows, checked radio, input values) is out of the user's reach for good.
hide(dialog) ==
    IF "vals" \in DOMAIN dialog THEN ClosedConv
    ELSE IF "checked" \in DOMAIN dialog THEN ClosedList
    ELSE ClosedDetail

\* Variant of get_selected_loan that takes the first row, checked or not.
get_selected_loan_first(dialog) == dialog.loan_waybills[1]

\* get_selected_loan: the loan of the checked radio, or null (NoLoan).
get_selected_loan(dialog) ==
    IF dialog.checked = 0 THEN NoLoan ELSE dialog.loan_waybills[dialog.checked]

\* Variants of the "input" handler with one slip each: the negative branch
\* left out, the clamped value not written back, `>=` for `>`.
convert_input_on_input_no_floor(attr, raw) ==
    LET max == OrZero(parseFloat(attr))
        val0 == OrZero(parseFloat(raw))
        over == val0 > max
    IN  [value |-> IF over THEN Num(max) ELSE raw, alert |-> over]

convert_input_on_input_no_write(attr, raw) ==
    LET max == OrZero(parseFloat(attr))
        val0 == OrZero(parseFloat(raw))
        over == val0 > max
        val1 == IF over THEN max ELSE val0
    IN  [value |-> IF val1 < 0 THEN Num(0) ELSE raw, alert |-> over]

convert_input_on_input_ge(attr, raw) ==
    LET max == OrZero(parseFloat(attr))
        val0 == OrZero(parseFloat(raw))
        over == val0 >= max
        val1 == IF over THEN max ELSE val0
        input1 == IF over THEN Num(max) ELSE raw
        input2 == IF val1 < 0 THEN Num(0) ELSE input1
    IN  [value |-> input2, alert |-> over]

\* The "input" handler of a .convert-input.
convert_input_on_input(attr, raw) ==
    LET max == OrZero(parseFloat(attr))
        val0 == OrZero(parseFloat(raw))
        over == val0 > max
        val1 == IF over THEN max ELSE val0
        input1 == IF over THEN Num(max) ELSE raw
        input2 == IF val1 < 0 THEN Num(0) ELSE input1
    IN  [value |-> input2, alert |-> over]

\* One payload line of collect_conversion_data.
payload_item(loan, index, qty) ==
    LET src == loan.items[index]
    IN  [item_code |-> src.item_code, qty |-> qty, batch_no |-> src.batch_no,
         serial_no |-> src.serial_no, warehouse |-> src.warehouse,
         expiry_date |-> src.expiry_date, loan_waybill |-> loan.loan_waybill,
         stock_entry_detail |-> src.stock_entry_detail]

\* Variants of collect_conversion_data with one slip each: no skip of falsy
\* quantities, the source line taken at the payload position.
collect_conversion_data_all(vals, loan) ==
    [i \in 1..Len(vals) |-> payload_item(loan, i, OrZero(parseFloat(vals[i])))]

collect_conversion_data_pos(vals, loan) ==
    LET qty(i) == OrZero(parseFloat(vals[i]))
        all == [i \in 1..Len(vals) |-> i]
        kept == SelectSeq(all, LAMBDA i : qty(i) # 0)
    IN  [k \in 1..Len(kept) |-> payload_item(loan, k, qty(kept[k]))]

\* collect_conversion_data: the inputs in document order, those with a
\* falsy quantity skipped.
collect_conversion_data(vals, loan) ==
    LET qty(i) == OrZero(parseFloat(vals[i]))
        all == [i \in 1..Len(vals) |-> i]
        kept == SelectSeq(all, LAMBDA i : qty(i) # 0)
    IN  [k \in 1..Len(kept) |-> payload_item(loan, kept[k], qty(kept[k]))]

\* ---------------------------------------------------------------- actions
\* add_linked_document_buttons: the "Create" buttons a submitted order gets.
add_linked_document_buttons(d) ==
    (IF d.custom_customer_delivery_note = "" THEN {"Customer Delivery Note"} ELSE {})
        \cup (IF d.custom_promissory_note = "" THEN {"Promissory Note"} ELSE {})

\* Variant of the refresh handler without the per_delivered test.
sales_order_refresh_no_delivered(d) ==
    IF d.docstatus # 1 THEN {}
    ELSE add_linked_document_buttons(d)
            \cup (IF d.customer = "" THEN {} ELSE {"Check Pending Loan Waybills"})

\* The refresh handler of the Sales Order form: the custom buttons it adds.
sales_order_refresh(d) ==
    IF d.docstatus # 1 THEN {}
    ELSE add_linked_document_buttons(d)
            \cup (IF d.customer = "" \/ d.per_delivered >= 100 THEN {}
                  ELSE {"Check Pending Loan Waybills"})

\* The Sales Order form is refreshed with the document as it is now; the
\* framework drops the custom buttons of the last refresh before the handler
\* runs. The form is in the foreground: no dialog is open, no call in flight.
refresh ==
    /\ ~Frozen /\ ~list.open /\ ~detail.open /\ ~conv.open /\ route = <<>>
    /\ \E d \in SalesOrders :
        /\ so' = d
        /\ buttons' = sales_order_refresh(d)
    /\ notice' = NoNotice
    /\ event' = [type |-> "refresh"]
    /\ UNCHANGED <<call, list, detail, conv, route, inflight, convs>>
    /\ UNCHANGED <<form_vars, page>>

\* The "Check Pending Loan Waybills" button.
check_pending_loans ==
    /\ FormActive
    /\ call' = [kind |-> "fetch"]
    /\ inflight' = inflight + 1
    /\ notice' = NoNotice
    /\ event' = [type |-> "check_pending_loans"]
    /\ UNCHANGED <<list, detail, conv, route, so, buttons, convs>>
    /\ UNCHANGED <<form_vars, page>>

\* Variant of the callback that tests `!data.loan_waybills` but not its length.
check_pending_loans_callback_nolen(data) ==
    IF data.null \/ ~data.has_list
    THEN /\ notice' = [kind |-> "msgprint", text |-> "No Pending Loans", indicator |-> "green"]
         /\ UNCHANGED list
    ELSE /\ list' = [open |-> TRUE, loan_waybills |-> data.loan_waybills, checked |-> 0]
         /\ notice' = NoNotice

\* The callback of check_pending_loans, with r.message = data.
check_pending_loans_callback(data) ==
    IF data.null \/ ~data.has_list \/ Len(data.loan_waybills) = 0
    THEN /\ notice' = [kind |-> "msgprint", text |-> "No Pending Loans", indicator |-> "green"]
         /\ UNCHANGED list
    ELSE \* show_loan_selection_dialog
         /\ list' = [open |-> TRUE, loan_waybills |-> data.loan_waybills, checked |-> 0]
         /\ notice' = NoNotice

PendingLoansReply ==
    /\ call.kind = "fetch"
    /\ \E data \in PendingData :
        /\ check_pending_loans_callback(data)
        /\ event' = [type |-> "fetch_reply", data |-> data]
    /\ call' = NoCall
    /\ inflight' = inflight - 1
    /\ UNCHANGED <<detail, conv, route, so, buttons, convs>>
    /\ UNCHANGED <<form_vars, page>>

\* The request fails: frappe.call runs `callback` only for a response, and
\* neither call passes an `error` handler, so no code of the workflow runs.
CallFailed ==
    /\ call.kind # "none"
    /\ call' = NoCall
    /\ notice' = NoNotice
    /\ event' = [type |-> "call_failed", kind |-> call.kind]
    /\ inflight' = inflight - 1
    /\ UNCHANGED <<list, detail, conv, route, so, buttons, convs>>
    /\ UNCHANGED <<form_vars, page>>

\* A click on a radio button of the loan table (the row handler ignores it).
loan_select(i) ==
    /\ ListActive
    /\ i \in 1..Len(list.loan_waybills)
    /\ list' = [list EXCEPT !.checked = i]
    /\ notice' = NoNotice
    /\ event' = [type |-> "loan_select", index |-> i]
    /\ UNCHANGED <<call, detail, conv, route, so, buttons, inflight, convs>>
    /\ UNCHANGED <<form_vars, page>>

\* A click on a row of the loan table: show_loan_detail_dialog.
loan_row_click(i) ==
    /\ ListActive
    /\ i \in 1..Len(list.loan_waybills)
    /\ detail' = [open |-> TRUE, loan |-> list.loan_waybills[i]]
    /\ notice' = NoNotice
    /\ event' = [type |-> "loan_row_click", index |-> i]
    /\ UNCHANGED <<call, list, conv, route, so, buttons, inflight, convs>>
    /\ UNCHANGED <<form_vars, page>>

\* open_conversion_dialog: a new dialog with one empty input per item.
open_conversion_dialog(loan) ==
    /\ conv' = [open |-> TRUE, loan |-> loan, vals |-> [i \in 1..Len(loan.items) |-> Blank]]
    /\ convs' = convs + 1

\* Variant of "Convert Selected" without dialog.hide().
loan_selection_primary_action_no_hide ==
    /\ ListActive
    /\ LET selected == get_selected_loan(list)
       IN  IF selected = NoLoan
           THEN /\ notice' = [kind |-> "msgprint", text |-> "Please select a Loan Waybill to convert.",
                              indicator |-> ""]
                /\ UNCHANGED <<list, conv, convs>>
           ELSE /\ UNCHANGED list
                /\ open_conversion_dialog(selected)
                /\ notice' = NoNotice
    /\ event' = [type |-> "convert_selected"]
    /\ UNCHANGED <<call, detail, route, so, buttons, inflight>>
    /\ UNCHANGED <<form_vars, page>>

\* "Convert Selected" of the loan selection dialog.
loan_selection_primary_action ==
    /\ ListActive
    /\ LET selected == get_selected_loan(list)
       IN  IF selected = NoLoan
           THEN /\ notice' = [kind |-> "msgprint", text |-> "Please select a Loan Waybill to convert.",
                              indicator |-> ""]
                /\ UNCHANGED <<list, conv, convs>>
           ELSE /\ list' = hide(list)
                /\ open_conversion_dialog(selected)
                /\ notice' = NoNotice
    /\ event' = [type |-> "convert_selected"]
    /\ UNCHANGED <<call, detail, route, so, buttons, inflight>>
    /\ UNCHANGED <<form_vars, page>>

\* An "input" event on the quantity input of line i, the user having typed raw.
convert_input(i, raw) ==
    /\ ConvActive
    /\ i \in 1..Len(conv.vals)
    /\ LET res == convert_input_on_input(max_attr(conv.loan.items[i]), raw)
       IN  /\ conv' = [conv EXCEPT !.vals[i] = res.value]
           /\ notice' = IF res.alert
                        THEN [kind |-> "alert",
                              text |-> "Cannot convert more than maximum convertible quantity.",
                              indicator |-> "orange"]
                        ELSE NoNotice
    /\ event' = [type |-> "convert_input", index |-> i, raw |-> raw]
    /\ UNCHANGED <<call, list, detail, route, so, buttons, inflight, convs>>
    /\ UNCHANGED <<form_vars, page>>

\* create_draft_delivery_note: the call is issued with the payload.
create_draft_delivery_note(loan, payload) ==
    /\ call' = [kind |-> "create", loan_waybill |-> loan.loan_waybill, items |-> payload]
    /\ inflight' = inflight + 1

\* "Create Conversion Waybill" of the conversion dialog.
conversion_primary_action ==
    /\ ConvActive
    /\ LET payload == collect_conversion_data(conv.vals, conv.loan)
       IN  IF Len(payload) = 0
           THEN /\ notice' = [kind |-> "msgprint", text |-> "Enter at least one quantity to convert.",
                              indicator |-> ""]
                /\ UNCHANGED <<conv, call, inflight, convs>>
           ELSE /\ conv' = hide(conv)
                /\ convs' = convs - 1
                /\ create_draft_delivery_note(conv.loan, payload)
                /\ notice' = NoNotice
    /\ event' = [type |-> "submit"]
    /\ UNCHANGED <<list, detail, route, so, buttons>>
    /\ UNCHANGED <<form_vars, page>>

\* Variant of the callback without `if (!r.message) return`.
create_draft_delivery_note_callback_unguarded(data) ==
    route' = Append(route, <<"Form", "Delivery Note", data.name>>)

\* The callback of create_draft_delivery_note, with r.message = data.
create_draft_delivery_note_callback(data) ==
    IF data.null
    THEN UNCHANGED route
    ELSE route' = Append(route, <<"Form", "Delivery Note", data.name>>)

\* Variant of the create response that issues the call again when it
\* brought no document.
DeliveryNoteReply_retry ==
    /\ call.kind = "create"
    /\ \E data \in CreateData :
        /\ create_draft_delivery_note_callback(data)
        /\ event' = [type |-> "create_reply", data |-> data]
        /\ IF data.null THEN UNCHANGED <<call, inflight>>
           ELSE call' = NoCall /\ inflight' = inflight - 1
    /\ notice' = NoNotice
    /\ UNCHANGED <<list, detail, conv, so, buttons, convs>>
    /\ UNCHANGED <<form_vars, page>>

DeliveryNoteReply ==
    /\ call.kind = "create"
    /\ \E data \in CreateData :
        /\ create_draft_delivery_note_callback(data)
        /\ event' = [type |-> "create_reply", data |-> data]
    /\ call' = NoCall
    /\ inflight' = inflight - 1
    /\ notice' = NoNotice
    /\ UNCHANGED <<list, detail, conv, so, buttons, convs>>
    /\ UNCHANGED <<form_vars, page>>

\* The user closes a dialog (the close button or Escape of frappe.ui.Dialog).
close_list ==
    /\ ListActive
    /\ list' = hide(list)
    /\ notice' = NoNotice
    /\ event' = [type |-> "close", dialog |-> "list"]
    /\ UNCHANGED <<call, detail, conv, route, so, buttons, inflight, convs>>
    /\ UNCHANGED <<form_vars, page>>

close_detail ==
    /\ DetailActive
    /\ detail' = hide(detail)
    /\ notice' = NoNotice
    /\ event' = [type |-> "close", dialog |-> "detail"]
    /\ UNCHANGED <<call, list, conv, route, so, buttons, inflight, convs>>
    /\ UNCHANGED <<form_vars, page>>

\* Variant of the close of the conversion dialog that submits what was entered.
close_conv_submits ==
    /\ ConvActive
    /\ conv' = hide(conv)
    /\ convs' = convs - 1
    /\ LET payload == collect_conversion_data(conv.vals, conv.loan)
       IN  IF Len(payload) = 0 THEN UNCHANGED <<call, inflight>>
           ELSE create_draft_delivery_note(conv.loan, payload)
    /\ notice' = NoNotice
    /\ event' = [type |-> "close", dialog |-> "conv"]
    /\ UNCHANGED <<list, detail, route, so, buttons>>
    /\ UNCHANGED <<form_vars, page>>

close_conv ==
    /\ ConvActive
    /\ conv' = hide(conv)
    /\ convs' = convs - 1
    /\ notice' = NoNotice
    /\ event' = [type |-> "close", dialog |-> "conv"]
    /\ UNCHANGED <<call, list, detail, route, so, buttons, inflight>>
    /\ UNCHANGED <<form_vars, page>>

Next ==
    \/ refresh
    \/ check_pending_loans
    \/ PendingLoansReply
    \/ CallFailed
    \/ \E i \in 1..2 : loan_select(i)
    \/ \E i \in 1..2 : loan_row_click(i)
    \/ loan_selection_primary_action
    \/ \E i \in 1..2, raw \in RawValues : convert_input(i, raw)
    \/ conversion_primary_action
    \/ DeliveryNoteReply
    \/ close_list
    \/ close_detail
    \/ close_conv

Spec == Init /\ [][Next]_vars

\* The quantity handler on its own: a conversion dialog over two lines whose
\* max attributes range over -NegMax..MaxQty, and nothing but input events.
InitClamp ==
    /\ call = NoCall
    /\ list = ClosedList
    /\ detail = ClosedDetail
    /\ \E loan \in Loan1((0 - NegMax)..MaxQty) :
         conv = [open |-> TRUE, loan |-> loan, vals |-> <<Blank, Blank>>]
    /\ route = <<>>
    /\ notice = NoNotice
    /\ event = [type |-> "init"]
    /\ so = NewSalesOrder
    /\ buttons = {}
    /\ inflight = 0
    /\ convs = 1
    /\ NoForm

NextClamp == \E i \in 1..2, raw \in RawValues : convert_input(i, raw)

SpecClamp == InitClamp /\ [][NextClamp]_vars

\* ================================================================ document forms
\* The form scripts of Loan Waybill (doctype/loan_waybill/loan_waybill.js),
\* Customer Delivery Note and Promissory Note: field handlers, their
\* requests and the callbacks of these. A handler runs to its end, the
\* handlers frm.set_value triggers included; a request is answered later, in
\* any order, and every request is answered.

MaxReqs == 3    \* the user waits when this many requests are outstanding

Scripts == {"Loan Waybill", "Customer Delivery Note", "Promissory Note"}
Customers == {"CUST-1", "CUST-2"}
Addresses == {"ADDR-1", "ADDR-2"}
OrderNames == {"SO-1", "SO-2"}

\* The server's data: the text of an address, the Sales Orders, and the one
\* Sales Order a Customer Delivery Note is linked to already.
AddressText(a) == IF a = "ADDR-1" THEN "1 First Street" ELSE "2 Second Street"
LinkedOrders == {"SO-2"}
OrderItems(s) == <<[item_code |-> IF s = "SO-1" THEN "ITEM-1" ELSE "ITEM-2", qty |-> 1]>>
OrderDoc(s) ==
    IF s = "SO-1"
    THEN [customer |-> "CUST-1", customer_address |-> "ADDR-1", shipping_address_name |-> "",
          items |-> OrderItems(s)]
    ELSE [customer |-> "CUST-2", customer_address |-> "ADDR-2", shipping_address_name |-> "ADDR-1",
          items |-> OrderItems(s)]
NoMessage == [customer |-> "", customer_address |-> "", shipping_address_name |-> "", items |-> <<>>]

\* The display field of an address field.
DisplayOf(source) ==
    IF source = "customer_address" THEN "address_display" ELSE "shipping_address"

\* The state a handler works on.
Form == [doc |-> doc, df |-> df, reqs |-> reqs, notice |-> NoNotice, query |-> query]
put(st, field, value) == [st EXCEPT !.doc[field] = value]
frappe_call(st, method, arg, target) ==
    [st EXCEPT !.reqs = @ \cup {[method |-> method, arg |-> arg, target |-> target]}]
set_df(st, locked) ==
    [st EXCEPT !.df = [cannot_add_rows |-> locked, cannot_delete_rows |-> locked]]

\* update_address_display, and the customer_address and shipping_address_name
\* handlers of the three scripts.
update_address_display(st, source, target) ==
    IF st.doc[source] = "" THEN put(st, target, "")
    ELSE frappe_call(st, "get_address_display", st.doc[source], target)

\* frm.set_value on an address field: the handler runs when the value changes.
set_address(st, source, value) ==
    IF st.doc[source] = value THEN st
    ELSE update_address_display(put(st, source, value), source, DisplayOf(source))

\* The callback of get_address_display: `r.message && frm.set_value(...)`, and
\* `frm.set_value(..., r.message || "")` in the Promissory Note.
address_display_callback(st, r, message) ==
    IF script = "Promissory Note" THEN put(st, r.target, message)
    ELSE IF message # "" THEN put(st, r.target, message) ELSE st

\* set_address_contact_filters (set_address_filters in the Promissory Note,
\* which gives received_by no query). The Customer Delivery Note builds
\* customer_filter from frm.doc.customer once, when it is called, and hands
\* that object to both address fields; every other function reads
\* frm.doc.customer when the picker calls it.
set_address_contact_filters(st) ==
    LET address == [kind |-> "address_query",
                    customer |-> IF script = "Customer Delivery Note"
                                 THEN st.doc.customer ELSE Live]
        contact == [kind |-> "contact_query", customer |-> Live]
    IN  [st EXCEPT !.query =
            [customer_address |-> address, shipping_address_name |-> address,
             received_by |-> IF script = "Promissory Note" THEN @.received_by ELSE contact]]

\* What a picker gets from its get_query function: no match for an empty
\* customer (filters name = ""), else the query restricted to the customer.
NoMatch == [query |-> "", link_name |-> ""]
get_query(field) ==
    LET q == query[field]
        customer == IF q.customer = Live THEN doc.customer ELSE q.customer
    IN  IF customer = "" THEN NoMatch ELSE [query |-> q.kind, link_name |-> customer]

\* ---- Loan Waybill
clear_customer_fields(st) ==
    LET s1 == set_address(st, "customer_address", "")
        s2 == set_address(s1, "shipping_address_name", "")
        s3 == put(s2, "received_by", "")
        s4 == put(s3, "address_display", "")
    IN  put(s4, "shipping_address", "")

load_customer_addresses(st) ==
    frappe_call(frappe_call(st, "get_default_address", st.doc.customer, "customer_address"),
                "get_default_address", st.doc.customer, "shipping_address_name")

loan_waybill_customer(st) ==
    IF st.doc.customer = "" THEN clear_customer_fields(st) ELSE load_customer_addresses(st)

\* The callbacks of load_customer_addresses.
default_address_callback(st, r, message) ==
    IF message # "" THEN set_address(st, r.target, message) ELSE st

\* ---- Customer Delivery Note and Promissory Note
\* set_items_editable_state, lock_items_if_so_linked.
set_items_editable_state(st) == set_df(st, st.doc.sales_order # "")

fetch_sales_order_data(st) ==
    IF st.doc.sales_order = "" THEN st
    ELSE frappe_call(st, "get", st.doc.sales_order, "")

\* The sales_order handlers.
delivery_note_sales_order(st) ==
    IF st.doc.sales_order = "" THEN set_df(st, FALSE)
    ELSE frappe_call(st, "get_list", st.doc.sales_order, "")

promissory_note_sales_order(st) ==
    IF st.doc.sales_order = "" THEN set_df(st, FALSE)
    ELSE set_items_editable_state(st)

\* The callback of the get_list call of the sales_order handler.
get_list_callback(st, r, linked) ==
    IF linked
    THEN LET warned == [st EXCEPT !.notice =
                            [kind |-> "msgprint", text |-> "Sales Order Already Linked",
                             indicator |-> "red"]]
         IN  IF warned.doc.sales_order = "" THEN warned
             ELSE delivery_note_sales_order(put(warned, "sales_order", ""))
    ELSE fetch_sales_order_data(st)

\* The callback of fetch_sales_order_data, with r.message = order.
fetch_sales_order_data_callback(st, r, order) ==
    IF order = NoMessage
    THEN [st EXCEPT !.notice =
            [kind |-> "msgprint", text |-> "Could not fetch Sales Order data. Please try again.",
             indicator |-> ""]]
    ELSE LET s1 == put(st, "customer", order.customer)
             s2 == set_address(s1, "customer_address", order.customer_address)
             s3 == set_address(s2, "shipping_address_name",
                               IF order.shipping_address_name # ""
                               THEN order.shipping_address_name ELSE order.customer_address)
             s4 == set_address_contact_filters(s3)
             s5 == put(s4, "items", order.items)
         IN  set_items_editable_state(s5)

\* onload and refresh of the two forms.
form_onload(st) ==
    IF ~(st.doc.is_new /\ st.doc.sales_order # "") THEN st
    ELSE IF script = "Customer Delivery Note" THEN fetch_sales_order_data(st)
    ELSE IF script = "Promissory Note" THEN set_items_editable_state(st)
    ELSE st

form_refresh(st) ==
    IF script = "Loan Waybill" THEN set_address_contact_filters(st)
    ELSE LET s1 == set_items_editable_state(set_address_contact_filters(st))
         IN  IF s1.doc.date = "" THEN put(s1, "date", "today") ELSE s1

\* The handler of a field the user has changed.
field_handler(st, field) ==
    IF field \in {"customer_address", "shipping_address_name"}
    THEN update_address_display(st, field, DisplayOf(field))
    ELSE IF field = "customer" /\ script = "Loan Waybill" THEN loan_waybill_customer(st)
    ELSE IF field = "sales_order" /\ script = "Customer Delivery Note"
    THEN delivery_note_sales_order(st)
    ELSE IF field = "sales_order" /\ script = "Promissory Note"
    THEN promissory_note_sales_order(st)
    ELSE st

\* The fields the user can change: setup_customer_redirect keeps the address
\* fields of a Loan Waybill out of reach while the customer is empty, and
\* setup_sales_order_redirect the customer and address fields of a Customer
\* Delivery Note while the Sales Order is empty. The Promissory Note has no
\* such guard.
Editable(field) ==
    IF script = "Loan Waybill"
    THEN field = "customer"
            \/ (field \in {"customer_address", "shipping_address_name", "received_by"}
                    /\ doc.customer # "")
    ELSE IF script = "Customer Delivery Note"
    THEN field = "sales_order"
            \/ (field \in {"customer", "customer_address", "shipping_address_name", "received_by"}
                    /\ doc.sales_order # "")
    ELSE field \in {"sales_order", "customer", "customer_address", "shipping_address_name"}

FieldValues(field) ==
    IF field = "customer" THEN Customers \cup {""}
    ELSE IF field = "sales_order" THEN OrderNames \cup {""}
    ELSE Addresses \cup {""}

\* fetch_sales_order_data calls with freeze: true.
FormFrozen == \E r \in reqs : r.method = "get"

\* A handler has run: its result becomes the state of the form.
Becomes(st) ==
    /\ doc' = st.doc
    /\ df' = st.df
    /\ reqs' = st.reqs
    /\ notice' = st.notice
    /\ query' = st.query
    /\ UNCHANGED <<script, call, list, detail, conv, route, so, buttons, inflight, convs, page>>

\* ---- actions
\* The user changes a field.
field_change(field, value) ==
    /\ script # "none"
    /\ ~FormFrozen
    /\ Cardinality(reqs) < MaxReqs
    /\ Editable(field)
    /\ value \in FieldValues(field)
    /\ doc[field] # value
    /\ Becomes(field_handler(put(Form, field, value), field))
    /\ event' = [type |-> "field_change", field |-> field, value |-> value]

\* The form is refreshed.
document_refresh ==
    /\ script # "none"
    /\ ~FormFrozen
    /\ Becomes(form_refresh(Form))
    /\ event' = [type |-> "document_refresh"]

\* The user opens the picker of a link field, which calls its get_query.
picker_query(field) ==
    /\ script # "none"
    /\ ~FormFrozen
    /\ Editable(field)
    /\ query[field] # NoQuery
    /\ Becomes(Form)
    /\ event' = [type |-> "picker_query", field |-> field, filter |-> get_query(field)]

\* A request is answered and its callback runs.
Answered(r) == [Form EXCEPT !.reqs = @ \ {r}]

address_display_reply ==
    \E r \in reqs :
        /\ r.method = "get_address_display"
        /\ Becomes(address_display_callback(Answered(r), r, AddressText(r.arg)))
        /\ event' = [type |-> "address_display_reply"]

default_address_reply ==
    \E r \in reqs, message \in Addresses \cup {""} :
        /\ r.method = "get_default_address"
        /\ Becomes(default_address_callback(Answered(r), r, message))
        /\ event' = [type |-> "default_address_reply"]

get_list_reply ==
    \E r \in reqs :
        /\ r.method = "get_list"
        /\ Becomes(get_list_callback(Answered(r), r, r.arg \in LinkedOrders))
        /\ event' = [type |-> "get_list_reply"]

sales_order_reply ==
    \E r \in reqs, found \in BOOLEAN :
        /\ r.method = "get"
        /\ LET order == IF found THEN OrderDoc(r.arg) ELSE NoMessage IN
            /\ Becomes(fetch_sales_order_data_callback(Answered(r), r, order))
            /\ event' = [type |-> "sales_order_reply"]

\* A form is opened on a new document, with the Sales Order it was mapped
\* from if any: onload, then refresh.
InitForm ==
    /\ call = NoCall
    /\ list = ClosedList
    /\ detail = ClosedDetail
    /\ conv = ClosedConv
    /\ route = <<>>
    /\ so = NewSalesOrder
    /\ buttons = {}
    /\ inflight = 0
    /\ convs = 0
    /\ event = [type |-> "init"]
    /\ script \in Scripts
    /\ page = LoadedPage
    /\ \E s \in (OrderNames \ LinkedOrders) \cup {""} :
        /\ script = "Loan Waybill" => s = ""
        /\ LET opened == [doc |-> [BlankDoc EXCEPT !.sales_order = s], df |-> Unlocked,
                          reqs |-> {}, notice |-> NoNotice, query |-> NoQueries]
               loaded == form_refresh(form_onload(opened))
           IN  /\ doc = loaded.doc
               /\ df = loaded.df
               /\ reqs = loaded.reqs
               /\ notice = loaded.notice
               /\ query = loaded.query

NextForm ==
    \/ \E field \in {"customer", "sales_order", "customer_address", "shipping_address_name"},
          value \in Customers \cup OrderNames \cup Addresses \cup {""} :
            field_change(field, value)
    \/ document_refresh
    \/ \E field \in {"customer_address", "shipping_address_name", "received_by"} :
            picker_query(field)
    \/ address_display_reply
    \/ default_address_reply
    \/ get_list_reply
    \/ sales_order_reply

SpecForm == InitForm /\ [][NextForm]_vars

\* ================================================================ page load
\* The end of nbs_theme.js (the "Initialize theme when DOM is ready" part),
\* the life cycle of the document it runs in, and the theme's observers.

MaxTables == 3      \* tables added to the body by other scripts
MaxUpdates == 1     \* updateTheme calls

Moves(pg) ==
    /\ page' = pg
    /\ UNCHANGED <<wf_vars, form_vars>>

\* The parser reaches the end of the document.
parsing_done ==
    /\ page.readyState = "loading"
    /\ Moves([page EXCEPT !.readyState = "interactive"])

\* DOMContentLoaded is dispatched: every listener registered so far runs.
DOMContentLoaded ==
    /\ page.readyState = "interactive"
    /\ ~page.dispatched
    /\ Moves([run_listeners(page, page.listeners) EXCEPT !.dispatched = TRUE])

\* The load event: the document is complete.
window_load ==
    /\ page.readyState = "interactive"
    /\ page.dispatched
    /\ Moves([page EXCEPT !.readyState = "complete"])

\* nbs_theme.js is evaluated: a DOMContentLoaded listener is added, then a
\* second one if the document is loading, else the theme is constructed.
theme_script ==
    /\ ~page.ran
    /\ LET first == [page EXCEPT !.ran = TRUE, !.listeners = @ + 1]
       IN  Moves(IF first.readyState = "loading"
                 THEN [first EXCEPT !.listeners = @ + 1]
                 ELSE NBSTheme(first))

\* A table with one body row is added to the body: every observer there is calls
\* applyStylingToNewElements, and styleTable adds a listener pair to the row.
table_added ==
    /\ page.tables < MaxTables
    /\ Moves([page EXCEPT !.tables = @ + 1, !.row_listeners = @ + page.observers])

\* window.NBSTheme.updateTheme(newConfig): applyTheme, setupTableStyling,
\* setupButtonStyling.
updateTheme ==
    /\ page.instances > 0
    /\ page.updates < MaxUpdates
    /\ Moves([addGlobalStyles(addGlobalStyles(page)) EXCEPT !.updates = @ + 1])

InitTheme ==
    /\ call = NoCall
    /\ list = ClosedList
    /\ detail = ClosedDetail
    /\ conv = ClosedConv
    /\ route = <<>>
    /\ notice = NoNotice
    /\ event = [type |-> "init"]
    /\ so = NewSalesOrder
    /\ buttons = {}
    /\ inflight = 0
    /\ convs = 0
    /\ script = "none"
    /\ doc = BlankDoc
    /\ df = Unlocked
    /\ reqs = {}
    /\ query = NoQueries
    /\ page = NewPage

NextTheme ==
    \/ parsing_done
    \/ DOMContentLoaded
    \/ window_load
    \/ theme_script
    \/ table_added
    \/ updateTheme

SpecTheme == InitTheme /\ [][NextTheme]_vars

\* ================================================================ properties
\* The quantity a line requests: the number in its input, 0 for an empty one.
Requested(v) == IF v.kind = "num" THEN v.n ELSE 0

Submitting == call.kind = "create"
IsErrorNotice(n) == n.kind = "msgprint" /\ n.indicator = "red"
NoPendingNotice == [kind |-> "msgprint", text |-> "No Pending Loans", indicator |-> "green"]
EnterQtyNotice ==
    [kind |-> "msgprint", text |-> "Enter at least one quantity to convert.", indicator |-> ""]
ClampNotice ==
    [kind |-> "alert", text |-> "Cannot convert more than maximum convertible quantity.",
     indicator |-> "orange"]

\* The step resolves the call in flight without a result.
FailedStep(kind, reply) ==
    /\ call.kind = kind
    /\ call'.kind = "none"
    /\ \/ event'.type = "call_failed"
       \/ event'.type = reply /\ event'.data.null

\* The positive quantities of a dialog's inputs, in line order.
PositiveQtys(c) ==
    LET all == [i \in 1..Len(c.vals) |-> Requested(c.vals[i])]
    IN  SelectSeq(all, LAMBDA q : q > 0)

\* C1: when the create call fails, the conversion dialog of the same loan
\* waybill is open again with the quantities entered before submit, and an
\* error message is displayed.
C1_FailedCreateReturnsToQuantityCapture ==
    [][FailedStep("create", "create_reply") =>
         /\ conv'.open
         /\ conv'.loan.loan_waybill = call.loan_waybill
         /\ PositiveQtys(conv') = [k \in 1..Len(call.items) |-> call.items[k].qty]
         /\ IsErrorNotice(notice')]_vars

\* C2: submit issues the create call iff some line requests a quantity > 0,
\* and a create call is issued by submit only; otherwise the dialog stays
\* open with its quantities, a message is shown and no call is issued.
C2_SubmitIffPositiveQuantity ==
    [][/\ event'.type = "submit" =>
            LET any == \E i \in 1..Len(conv.vals) : Requested(conv.vals[i]) > 0
            IN  /\ conv.open
                /\ (call'.kind = "create") <=> any
                /\ ~any => /\ conv' = conv
                           /\ call' = call
                           /\ call.kind = "none"
                           /\ notice' = EnterQtyNotice
       /\ (call'.kind = "create" /\ call.kind # "create") => event'.type = "submit"]_vars

C2_Witness ==
    /\ event.type = "submit"
    /\ conv.open
    /\ notice = EnterQtyNotice
    /\ call.kind = "none"
    /\ \E i \in 1..Len(conv.vals) : conv.vals[i] = Num(0)

\* C3: the quantity requested by every line of an open conversion dialog is
\* within [0, max_convertible_qty] after every step (every input event with
\* any raw value included), and so is the quantity of every payload line sent.
C3_QuantityWithinRange ==
    [][/\ conv'.open =>
            \A i \in 1..Len(conv'.vals) :
                /\ 0 <= Requested(conv'.vals[i])
                /\ Requested(conv'.vals[i]) <= conv'.loan.items[i].max_convertible_qty
       /\ (call'.kind = "create" /\ call.kind = "none") =>
            \A k \in 1..Len(call'.items) :
                \E i \in 1..Len(conv.loan.items) :
                    /\ conv.loan.items[i].stock_entry_detail = call'.items[k].stock_entry_detail
                    /\ 0 <= call'.items[k].qty
                    /\ call'.items[k].qty <= conv.loan.items[i].max_convertible_qty]_vars

C3_Witness ==
    /\ event.type = "convert_input"
    /\ event.raw = Num(0 - 1)
    /\ conv.open
    /\ conv.vals[event.index] = Num(0)

\* C4: while the create call is in flight a step either leaves the workflow
\* as it is, or resolves the call into Closed(success) or back into
\* QuantityCapture.
C4_SubmittingLeftOnlyByResolution ==
    [][Submitting =>
         \/ UNCHANGED <<call, list, detail, conv, route>>
         \/ /\ call'.kind = "none"
            /\ \/ Len(route') = Len(route) + 1
               \/ conv'.open /\ conv'.loan.loan_waybill = call.loan_waybill]_vars

\* The lines of loan with a requested quantity > 0, from line i on.
RECURSIVE ExpectedLines(_, _, _)
ExpectedLines(loan, vals, i) ==
    IF i > Len(vals) THEN <<>>
    ELSE LET src == loan.items[i]
             line == [item_code |-> src.item_code, qty |-> Requested(vals[i]),
                      batch_no |-> src.batch_no, serial_no |-> src.serial_no,
                      warehouse |-> src.warehouse, expiry_date |-> src.expiry_date]
         IN  (IF Requested(vals[i]) > 0 THEN <<line>> ELSE <<>>)
                 \o ExpectedLines(loan, vals, i + 1)

\* C5: the payload sent by submit is, in line order, exactly the lines of the
\* selected loan waybill that request a quantity > 0, each with the item code,
\* batch, serial, warehouse and expiry of its source line and the requested
\* quantity; no payload line has quantity 0.
C5_PayloadIsPositiveLinesInOrder ==
    [][(event'.type = "submit" /\ call'.kind = "create") =>
         /\ call'.loan_waybill = conv.loan.loan_waybill
         /\ [k \in 1..Len(call'.items) |->
               [item_code |-> call'.items[k].item_code, qty |-> call'.items[k].qty,
                batch_no |-> call'.items[k].batch_no, serial_no |-> call'.items[k].serial_no,
                warehouse |-> call'.items[k].warehouse,
                expiry_date |-> call'.items[k].expiry_date]]
              = ExpectedLines(conv.loan, conv.vals, 1)
         /\ \A k \in 1..Len(call'.items) : call'.items[k].qty > 0]_vars

C5_Witness ==
    /\ call.kind = "create"
    /\ call.loan_waybill = "LW-1"
    /\ Len(call.items) = 1
    /\ call.items[1].item_code = <<"ITEM", 1, 2>>

\* C6: a create reply carrying a document id navigates to that Delivery Note,
\* once; nothing else navigates.
C6_NavigateOncePerSuccessfulCreate ==
    [][/\ (event'.type = "create_reply" /\ ~event'.data.null) =>
            /\ call.kind = "create"
            /\ call'.kind = "none"
            /\ route = <<>>
            /\ route' = <<<<"Form", "Delivery Note", event'.data.name>>>>
       /\ route' # route =>
            /\ call.kind = "create"
            /\ event'.type = "create_reply"
            /\ ~event'.data.null]_vars

C6_Witness ==
    /\ event.type = "create_reply"
    /\ route = <<<<"Form", "Delivery Note", "DN-2">>>>
    /\ call.kind = "none"

\* C7: a fetch reply with an empty list shows "No Pending Loans" and opens no
\* selection dialog; the selection dialog is opened by a fetch reply with at
\* least one loan waybill only, and shows that list.
C7_NoDialogForEmptyList ==
    [][/\ (event'.type = "fetch_reply" /\ Len(event'.data.loan_waybills) = 0) =>
            /\ notice' = NoPendingNotice
            /\ ~list'.open
       /\ (list'.open /\ ~list.open) =>
            /\ event'.type = "fetch_reply"
            /\ Len(event'.data.loan_waybills) > 0
            /\ list'.loan_waybills = event'.data.loan_waybills
       /\ list'.open => Len(list'.loan_waybills) > 0]_vars

C7_Witness ==
    /\ event.type = "fetch_reply"
    /\ ~event.data.null
    /\ event.data.has_list
    /\ event.data.loan_waybills = <<>>
    /\ notice = NoPendingNotice
    /\ ~list.open

SecondInputIsNoOp ==
    LET i == event.index
        again == convert_input_on_input(max_attr(conv.loan.items[i]), conv.vals[i])
    IN  again.value = conv.vals[i] /\ ~again.alert

\* C9 as stated: for every raw value and every max, the handler applied to
\* its own result yields the same result and raises no further warning.
C9_ClampIdempotentForEveryMax ==
    event.type = "convert_input" => SecondInputIsNoOp

\* C9 as amended: the same for every raw value and every max >= 0.
C9_ClampIdempotentForNonNegativeMax ==
    (event.type = "convert_input"
        /\ conv.loan.items[event.index].max_convertible_qty >= 0) => SecondInputIsNoOp

C9_Witness ==
    /\ event.type = "convert_input"
    /\ conv.loan.items[event.index].max_convertible_qty >= 0
    /\ notice = ClampNotice
    /\ Requested(event.raw) > Requested(conv.vals[event.index])

\* C10: every failure of either remote call shows an error notification.
C10_EveryRemoteFailureShowsError ==
    [][(FailedStep("fetch", "fetch_reply") \/ FailedStep("create", "create_reply"))
         => IsErrorNotice(notice')]_vars

\* C11: on every refresh the "Check Pending Loan Waybills" button is not
\* offered when docstatus is not 1, the customer is empty or per_delivered
\* >= 100; the workflow is started from a submitted, not fully delivered
\* Sales Order only.
C11_EntryPointOnlyForOpenSubmittedOrder ==
    [][/\ event'.type = "refresh" =>
            ((so'.docstatus # 1 \/ so'.customer = "" \/ so'.per_delivered >= 100)
                => "Check Pending Loan Waybills" \notin buttons')
       /\ event'.type = "check_pending_loans" =>
            /\ so.docstatus = 1
            /\ so.per_delivered < 100
            /\ so.customer # ""
            /\ so' = so]_vars

C11_Witness ==
    /\ event.type = "refresh"
    /\ so.docstatus = 1
    /\ so.customer # ""
    /\ so.per_delivered >= 100
    /\ "Check Pending Loan Waybills" \notin buttons
    /\ "Customer Delivery Note" \in buttons

\* C12: at most one remote call of the workflow is outstanding at any time.
C12_AtMostOneCallOutstanding ==
    /\ inflight \in {0, 1}
    /\ inflight = 1 <=> call.kind # "none"

C12_Witness ==
    /\ inflight = 1
    /\ call.kind = "create"
    /\ event.type = "submit"

C14_SingleAttemptPerUserAction ==
    [][/\ inflight' > inflight =>
            /\ inflight' = inflight + 1
            /\ event'.type \in {"check_pending_loans", "submit"}
       /\ event'.type = "check_pending_loans" =>
            /\ inflight' = inflight + 1
            /\ call'.kind = "fetch"
       /\ (event'.type = "submit" /\ ~conv'.open) =>
            /\ inflight' = inflight + 1
            /\ call'.kind = "create"
       /\ event'.type \in {"fetch_reply", "create_reply", "call_failed"} =>
            /\ inflight' = inflight - 1
            /\ call' = NoCall]_vars

C14_Witness ==
    /\ event.type = "create_reply"
    /\ event.data.null
    /\ inflight = 0
    /\ call = NoCall

\* C15: at most one conversion dialog is open at any time, and the list
\* dialog is closed whenever a conversion dialog is open.
C15_OneConversionDialog ==
    /\ convs \in {0, 1}
    /\ convs = 1 <=> conv.open
    /\ conv.open => ~list.open

C15_Witness ==
    /\ conv.open
    /\ convs = 1
    /\ event.type = "convert_selected"
    /\ ~list.open

\* C16: closing a dialog issues no call, navigates nowhere and leaves the
\* Sales Order form as it is; the quantities of a closed conversion dialog
\* are dropped, and every conversion dialog opens with empty inputs.
C16_CloseHasNoSideEffects ==
    [][/\ event'.type = "close" =>
            /\ call' = call
            /\ inflight' = inflight
            /\ route' = route
            /\ so' = so
            /\ buttons' = buttons
            /\ event'.dialog = "conv" => conv' = ClosedConv
       /\ (conv'.open /\ ~conv.open) =>
            \A i \in 1..Len(conv'.vals) : conv'.vals[i] = Blank]_vars

C16_Witness ==
    /\ event.type = "close"
    /\ event.dialog = "conv"
    /\ ~conv.open
    /\ call = NoCall
    /\ route = <<>>

\* ---------------------------------------------------------------- C17
NoDisplayCall == ~\E r \in reqs : r.method = "get_address_display"
Mirrors(source) ==
    doc[DisplayOf(source)] = IF doc[source] = "" THEN "" ELSE AddressText(doc[source])

\* C17: whenever no get_address_display call is outstanding, each display
\* field (address_display, shipping_address) is empty if its address field
\* (customer_address, shipping_address_name) is empty, and otherwise holds the
\* text returned for the address now in the field.
C17_DisplayMirrorsAddress ==
    (script # "none" /\ NoDisplayCall) =>
        /\ Mirrors("customer_address")
        /\ Mirrors("shipping_address_name")

\* ---------------------------------------------------------------- C18
PopulatedFrom(order) ==
    /\ doc.items = OrderItems(order)
    /\ doc.customer = OrderDoc(order).customer

\* C18: on a Customer Delivery Note a Sales Order rejected as already linked
\* never populates the form: whenever no remote call is outstanding, items
\* and customer populated from an already linked Sales Order X imply that the
\* sales_order field equals X.
C18_RejectedOrderNeverPopulates ==
    (script = "Customer Delivery Note" /\ reqs = {}) =>
        \A order \in LinkedOrders : PopulatedFrom(order) => doc.sales_order = order

\* ---------------------------------------------------------------- C19
\* C19: on Customer Delivery Note and Promissory Note forms, once every
\* remote callback has run, cannot_add_rows and cannot_delete_rows of the
\* items table are both true when sales_order is non-empty and both false
\* when it is empty.
C19_GridLockedIffOrderLinked ==
    (script \in {"Customer Delivery Note", "Promissory Note"} /\ reqs = {}) =>
        /\ df.cannot_add_rows = (doc.sales_order # "")
        /\ df.cannot_delete_rows = (doc.sales_order # "")

\* ---------------------------------------------------------------- C20
NoDefaultAddressCall == ~\E r \in reqs : r.method = "get_default_address"

\* C20: on a Loan Waybill, whenever the customer field is empty and no
\* default-address call is outstanding, customer_address,
\* shipping_address_name, address_display and shipping_address are all empty.
C20_ClearedCustomerStaysCleared ==
    (script = "Loan Waybill" /\ doc.customer = "" /\ NoDefaultAddressCall) =>
        /\ doc.customer_address = ""
        /\ doc.shipping_address_name = ""
        /\ doc.address_display = ""
        /\ doc.shipping_address = ""

\* ---------------------------------------------------------------- C21
ExpectedFilter(field) ==
    IF doc.customer = "" THEN NoMatch
    ELSE [query |-> IF field = "received_by" THEN "contact_query" ELSE "address_query",
          link_name |-> doc.customer]

\* C21: whenever the picker of customer_address, shipping_address_name or
\* received_by is queried, its query is restricted to the customer now in
\* the form, and matches nothing when that customer is empty.
C21_PickerFiltersByCurrentCustomer ==
    event.type = "picker_query" => event.filter = ExpectedFilter(event.field)

\* ---------------------------------------------------------------- C22
\* C22: once the script has run and the document has loaded, exactly one
\* NBSTheme instance has been constructed, with one set of injected style
\* elements and one mutation observer, whatever the ready state was when the
\* script ran.
C22_ThemeInitialisedOnce ==
    (page.ran /\ page.readyState = "complete") =>
        /\ page.instances = 1
        /\ page.observers = 1
        /\ page.updates = 0 => page.styles = LoadedPage.styles

====
